---- MODULE Spec2Model ----
(***************************************************************************)
(* The recipe cache of mixr_client: the zustand store of                   *)
(* src/stores/recipeStore.ts (recipes map, recipeList, setRecipe,          *)
(* setRecipes, getRecipe, hasRecipe, clear) wrapped in the persist         *)
(* middleware, whose JSON storage uses the store's own replacer and        *)
(* reviver to carry the Map through localStorage.                          *)
(*                                                                         *)
(* JavaScript values are tagged so that a conversion can be told from the  *)
(* identity: [t |-> "Map", v |-> entries] is a Map whose entries           *)
(* <<key, value>> are kept in insertion order, [t |-> "array", v |-> s] an *)
(* array, [t |-> "number", v |-> n] a number and [t |-> "object", v |-> r] *)
(* a plain object.  The text JSON.stringify writes is modelled by the tree *)
(* JSON.parse reads back from it.                                          *)
(***************************************************************************)
EXTENDS Integers, Sequences, FiniteSets, TLC

VARIABLES
    recipes,       \* state.recipes: a Map, or whatever the reviver produced
    recipeList,    \* state.recipeList: the sequence of recipes
    localStorage,  \* the host key-value storage: a set of <<name, value>>
    last,          \* the call that produced this state (history)
    authToken,     \* MixrClient.authToken: <<>> (undefined) or <<token>>
    call,          \* the MixrClient operation under way or just finished
    inflight,      \* the hook fetches awaiting their response
    queryCache,    \* the QueryClient's cache of the recipe queries
    event          \* what a hook did last (history)

storeVars == <<recipes, recipeList, localStorage, last>>
clientVars == <<authToken, call>>
queryVars == <<queryCache, event>>
hookVars == <<inflight, queryCache, event>>
vars == <<recipes, recipeList, localStorage, last, authToken, call, inflight,
          queryCache, event>>

(***************************************************************************)
(* Bounds.                                                                 *)
(***************************************************************************)
MaxBatch == 2     \* longest input of setRecipes

Ids == {1, 2}
Names == {"Mojito", "Updated Mojito"}

\* A Recipe: its id and the rest of its content (stood for by name).
Recipe == [id : Ids, name : Names]

RECURSIVE SeqsUpTo(_, _)
SeqsUpTo(S, n) ==
    IF n = 0 THEN {<<>>}
    ELSE LET shorter == SeqsUpTo(S, n - 1)
         IN  shorter \cup {Append(s, x) : s \in {q \in shorter : Len(q) = n - 1}, x \in S}

Batches == SeqsUpTo(Recipe, MaxBatch)

(***************************************************************************)
(* JavaScript values and results.                                          *)
(***************************************************************************)
JNum(n) == [t |-> "number", v |-> n]
JObj(r) == [t |-> "object", v |-> r]
JArr(s) == [t |-> "array", v |-> s]
JMap(entries) == [t |-> "Map", v |-> entries]

\* The outcome of an expression: a value, undefined, or a thrown TypeError.
Value(x) == <<"value", x>>
Undefined == <<"undefined">>
TypeError == <<"TypeError">>

(***************************************************************************)
(* Map, as the store uses it.                                              *)
(***************************************************************************)
MapKeys(m) == {m.v[i][1] : i \in DOMAIN m.v}

MapHas(m, k) == k \in MapKeys(m)

MapGet(m, k) ==
    IF MapHas(m, k)
    THEN Value(m.v[CHOOSE i \in DOMAIN m.v : m.v[i][1] = k][2])
    ELSE Undefined

\* Map.prototype.set: an existing key keeps its place, a new key goes last.
MapSet(m, k, x) ==
    IF MapHas(m, k)
    THEN JMap([i \in DOMAIN m.v |-> IF m.v[i][1] = k THEN <<k, x>> ELSE m.v[i]])
    ELSE JMap(Append(m.v, <<k, x>>))

\* The [key, value] pairs an iterable yields to `new Map(iterable)`.
EntriesOf(x) ==
    IF x.t = "Map" THEN x.v
    ELSE [i \in DOMAIN x.v |-> <<x.v[i].v[1].v, x.v[i].v[2].v>>]

RECURSIVE MapFromEntries(_, _)
MapFromEntries(m, entries) ==
    IF entries = <<>> THEN m
    ELSE MapFromEntries(MapSet(m, Head(entries)[1], Head(entries)[2]), Tail(entries))

\* new Map(iterable)
NewMap(x) == MapFromEntries(JMap(<<>>), EntriesOf(x))

\* recipes.forEach((recipe) => newRecipes.set(recipe.id, recipe))
RECURSIVE forEachSet(_, _)
forEachSet(m, rs) ==
    IF rs = <<>> THEN m
    ELSE forEachSet(MapSet(m, Head(rs).id, Head(rs)), Tail(rs))

\* Array.prototype.findIndex((r) => r.id === id): 0-based, -1 when absent.
findIndex(list, id) ==
    IF \E i \in DOMAIN list : list[i].id = id
    THEN (CHOOSE i \in DOMAIN list :
              /\ list[i].id = id
              /\ \A j \in 1..(i - 1) : list[j].id # id) - 1
    ELSE -1

(***************************************************************************)
(* The store: state and the updaters handed to set.                        *)
(***************************************************************************)
\* get(): the current state object.
State == [recipes |-> recipes, recipeList |-> recipeList]

\* The state the store is created with.
InitialState == [recipes |-> JMap(<<>>), recipeList |-> <<>>]

\* Faulty variants of setRecipe's updater, each a slip the properties below
\* must tell from the code.
\* ... an id already in the map keeps its old value.
setRecipeUpdater_KeepsOld(state, recipe) ==
    LET copy == NewMap(state.recipes)
        newRecipes == IF MapHas(copy, recipe.id) THEN copy
                      ELSE MapSet(copy, recipe.id, recipe)
        existingIndex == findIndex(state.recipeList, recipe.id)
        newRecipeList ==
            IF existingIndex >= 0
            THEN [state.recipeList EXCEPT ![existingIndex + 1] = recipe]
            ELSE <<recipe>> \o state.recipeList
    IN  [recipes |-> newRecipes, recipeList |-> newRecipeList]

\* ... an updated recipe is moved to the front of the list.
setRecipeUpdater_MovesToFront(state, recipe) ==
    LET newRecipes == MapSet(NewMap(state.recipes), recipe.id, recipe)
        existingIndex == findIndex(state.recipeList, recipe.id)
        others == [i \in 1..(Len(state.recipeList) - 1) |->
                      IF i <= existingIndex THEN state.recipeList[i]
                      ELSE state.recipeList[i + 1]]
        newRecipeList ==
            IF existingIndex >= 0
            THEN <<recipe>> \o others
            ELSE <<recipe>> \o state.recipeList
    IN  [recipes |-> newRecipes, recipeList |-> newRecipeList]

\* ... a new recipe is pushed to the end of the list.
setRecipeUpdater_Pushes(state, recipe) ==
    LET newRecipes == MapSet(NewMap(state.recipes), recipe.id, recipe)
        existingIndex == findIndex(state.recipeList, recipe.id)
        newRecipeList ==
            IF existingIndex >= 0
            THEN [state.recipeList EXCEPT ![existingIndex + 1] = recipe]
            ELSE Append(state.recipeList, recipe)
    IN  [recipes |-> newRecipes, recipeList |-> newRecipeList]

\* Faulty variant of setRecipeUpdater: only the map is written, recipeList
\* keeps its old value.
setRecipeUpdater_MapOnly(state, recipe) ==
    [recipes |-> MapSet(state.recipes, recipe.id, recipe),
     recipeList |-> state.recipeList]

\* Faulty variant of setRecipeUpdater: the recipe is put in front of the list
\* whether or not its id is in it.
setRecipeUpdater_AlwaysInserts(state, recipe) ==
    [recipes |-> MapSet(NewMap(state.recipes), recipe.id, recipe),
     recipeList |-> <<recipe>> \o state.recipeList]

\* setRecipe's updater: (state) => ({recipes: newRecipes, recipeList: newRecipeList})
setRecipeUpdater(state, recipe) ==
    LET newRecipes == MapSet(NewMap(state.recipes), recipe.id, recipe)
        existingIndex == findIndex(state.recipeList, recipe.id)
        newRecipeList ==
            IF existingIndex >= 0
            THEN [state.recipeList EXCEPT ![existingIndex + 1] = recipe]
            ELSE <<recipe>> \o state.recipeList
    IN  [recipes |-> newRecipes, recipeList |-> newRecipeList]

\* Faulty variants of setRecipes' updater.
\* ... the list is replaced but the map is not written.
setRecipesUpdater_ListOnly(state, rs) ==
    [recipes |-> NewMap(state.recipes), recipeList |-> rs]

\* ... the input is appended to the list instead of replacing it.
setRecipesUpdater_Appends(state, rs) ==
    LET newRecipes == forEachSet(NewMap(state.recipes), rs)
    IN  [recipes |-> newRecipes, recipeList |-> state.recipeList \o rs]

\* ... the map is rebuilt from the input alone.
setRecipesUpdater_FreshMap(state, rs) ==
    LET newRecipes == forEachSet(JMap(<<>>), rs)
    IN  [recipes |-> newRecipes, recipeList |-> rs]

\* ... an id the map already holds keeps its old value.
setRecipesUpdater_KeepsExisting(state, rs) ==
    LET old == NewMap(state.recipes)
        fresh == SelectSeq(rs, LAMBDA r : ~MapHas(old, r.id))
    IN  [recipes |-> forEachSet(old, fresh), recipeList |-> rs]

\* setRecipes' updater: (state) => ({recipes: newRecipes, recipeList: recipes})
setRecipesUpdater(state, rs) ==
    LET newRecipes == forEachSet(NewMap(state.recipes), rs)
    IN  [recipes |-> newRecipes, recipeList |-> rs]

\* Faulty variant of clear's new state: the list is emptied, the map is kept.
clearState_ListOnly == [recipes |-> recipes, recipeList |-> <<>>]

\* clear's new state: {recipes: new Map(), recipeList: []}
clearState == [recipes |-> JMap(<<>>), recipeList |-> <<>>]

\* get().recipes.get(id): a value that is not a Map has no method get.
getRecipe(state, id) ==
    IF state.recipes.t = "Map" THEN MapGet(state.recipes, id) ELSE TypeError

\* get().recipes.has(id)
hasRecipe(state, id) ==
    IF state.recipes.t = "Map" THEN Value(MapHas(state.recipes, id)) ELSE TypeError

(***************************************************************************)
(* persist: the JSON storage with the store's replacer and reviver.        *)
(***************************************************************************)
StorageName == "mixr-recipe-storage"

\* replacer: a Map is written as the array of its [key, value] entries.
replacer(value) ==
    IF value.t = "Map"
    THEN JArr([i \in DOMAIN value.v |->
                  JArr(<<JNum(value.v[i][1]), JObj(value.v[i][2])>>)])
    ELSE value

\* reviver: an array that looks like Map entries is read back as a Map.
reviver(value) ==
    IF value.t = "array" /\ Len(value.v) > 0 /\ value.v[1].t = "array"
    THEN LET isMapEntries ==
                 \A i \in DOMAIN value.v :
                     /\ value.v[i].t = "array"
                     /\ Len(value.v[i].v) = 2
                     /\ value.v[i].v[1].t = "number"
         IN  IF isMapEntries THEN NewMap(value) ELSE value
    ELSE value

\* JSON.stringify(state, replacer), kept as the tree the text denotes.
stringify(state) ==
    [state |-> [recipes |-> replacer(state.recipes),
                recipeList |-> replacer(JArr([i \in DOMAIN state.recipeList |->
                                                 JObj(state.recipeList[i])]))],
     version |-> 0]

\* JSON.parse(text, reviver): the reviver sees every value, innermost first.
RECURSIVE parseValue(_)
parseValue(j) ==
    IF j.t = "array"
    THEN reviver(JArr([i \in DOMAIN j.v |-> parseValue(j.v[i])]))
    ELSE reviver(j)

parse(text) ==
    [recipes |-> parseValue(text.state.recipes),
     recipeList |-> LET list == parseValue(text.state.recipeList)
                    IN  [i \in DOMAIN list.v |-> list.v[i].v]]

\* localStorage.getItem(name): <<>> stands for null.
getItem(storage, name) ==
    IF \E p \in storage : p[1] = name
    THEN <<(CHOOSE p \in storage : p[1] = name)[2]>>
    ELSE <<>>

\* localStorage.setItem(name, value)
setItem(storage, name, value) ==
    {p \in storage : p[1] # name} \cup {<<name, value>>}

\* Faulty variant of persist's set: the state is applied, the snapshot is not
\* written.
set_NoWrite(next) ==
    /\ recipes' = next.recipes
    /\ recipeList' = next.recipeList
    /\ UNCHANGED localStorage

\* persist's set: apply the new state, then write the snapshot.
set(next) ==
    /\ recipes' = next.recipes
    /\ recipeList' = next.recipeList
    /\ localStorage' = setItem(localStorage, StorageName, stringify(next))

\* persist's merge of a restored snapshot over the state of a new instance.
hydrated(storage) ==
    LET str == getItem(storage, StorageName)
    IN  IF str = <<>> THEN InitialState ELSE parse(str[1])

(***************************************************************************)
(* The transport: FetchNetworkClient over fetch.                           *)
(***************************************************************************)
\* HTTP statuses a server sends.
Statuses == {200, 204, 404, 500}

\* Response.ok of fetch: the status is in the range 200-299.
IsOk(status) == status >= 200 /\ status <= 299

\* The JSON values a body carries: the API envelope MixrApiResponse with its
\* data, the envelope of a failure without data, and null.
Payload == [kind |-> "payload"]
Envelope(success, data, error) ==
    [kind |-> "envelope", success |-> success, data |-> data, error |-> error]
OkEnvelope == Envelope(TRUE, <<Payload>>, <<>>)
FailEnvelope == Envelope(FALSE, <<>>, <<"Recipe not found">>)
Null == [kind |-> "null"]
JsonValues == {OkEnvelope, FailEnvelope, Null}

\* The body of a response: JSON text (by the value it parses to), nothing, or
\* text that is not JSON.
JsonBody(v) == [t |-> "json", v |-> v]
EmptyBody == [t |-> "empty", v |-> Null]
HtmlBody == [t |-> "html", v |-> Null]
Bodies == {JsonBody(v) : v \in JsonValues} \cup {EmptyBody, HtmlBody}

\* What fetch does: it resolves with a response of any status, or it throws
\* an Error with a message, or something that is not an Error (error = <<>>).
Responds(status, body) ==
    [t |-> "response", status |-> status, body |-> body, error |-> <<>>]
Throws(error) ==
    [t |-> "throws", status |-> 0, body |-> EmptyBody, error |-> error]
NoFetch == [t |-> "none", status |-> 0, body |-> EmptyBody, error |-> <<>>]
ExceptionMessages == {"Failed to fetch", ""}
FetchOutcomes ==
    {Responds(status, body) : status \in Statuses, body \in Bodies}
        \cup {Throws(<<m>>) : m \in ExceptionMessages} \cup {Throws(<<>>)}

\* response.json(): throws SyntaxError unless the body is JSON text.
jsonThrows(body) == body.t # "json"
SyntaxErrorMessage(body) ==
    IF body.t = "empty" THEN "Unexpected end of JSON input"
    ELSE "Unexpected token '<'"

\* NetworkResponse: data and error are <<>> when undefined.
NetworkResponse(ok, status, data, error) ==
    [ok |-> ok, status |-> status, success |-> ok, data |-> data,
     error |-> error]

\* The catch block of request.
caught(error) ==
    NetworkResponse(FALSE, 500, <<>>,
                    IF error # <<>> THEN error ELSE <<"Network request failed">>)

\* request with what fetch did: everything from building the headers to
\* response.json() is inside the try.
request(fetched) ==
    IF fetched.t = "throws" THEN caught(fetched.error)
    ELSE IF jsonThrows(fetched.body)
         THEN caught(<<SyntaxErrorMessage(fetched.body)>>)
         ELSE NetworkResponse(IsOk(fetched.status), fetched.status,
                              <<fetched.body.v>>, <<>>)

\* The headers request hands to fetch: Content-Type, then options.headers
\* spread over it.
spread(base, over) ==
    {h \in base : \A o \in over : o[1] # h[1]} \cup over
requestHeaders(headers) ==
    spread({<<"Content-Type", "application/json">>}, headers)

\* The results of a NetworkClient that is not FetchNetworkClient (the mock of
\* the client's tests): ok with a 2xx status and any data, or not ok with an
\* error status, with or without error text and data.
TransportResults ==
    {NetworkResponse(TRUE, 200, data, <<>>) :
         data \in {<<>>, <<Null>>, <<OkEnvelope>>, <<FailEnvelope>>}}
        \cup {NetworkResponse(FALSE, status, data, error) :
                  status \in {404, 500},
                  data \in {<<>>, <<FailEnvelope>>},
                  error \in {<<>>, <<"Resource not found">>}}

(***************************************************************************)
(* The endpoint client: MixrClient and its helpers.                        *)
(***************************************************************************)
\* The operations modelled, by the name each hands to handleApiError; every
\* operation of the client has the same body.
Operations == {"get moods", "get recipes", "get recipe by id"}
Tokens == {"t1", "t2"}

\* createHeaders(additionalHeaders): the function has this one parameter.
createHeaders(additionalHeaders) ==
    spread({<<"Content-Type", "application/json">>}, additionalHeaders)

\* const headers = createHeaders({}, this.authToken): the second argument
\* has no parameter to bind to.
operationHeaders(token) == createHeaders({})

\* a || b on optional strings: undefined and "" are falsy.
Truthy(s) == s # <<>> /\ s[1] # ""

\* handleApiError: the first truthy of response.error, the error text of an
\* object in response.data, and "Failed to <operation>"; then the status.
Error(text, status) == [t |-> "Error", text |-> text, status |-> status]
dataError(response) ==
    IF response.data # <<>> /\ response.data[1].kind = "envelope"
    THEN response.data[1].error
    ELSE <<>>
handleApiError(response, operation) ==
    LET errorMessage ==
            IF Truthy(response.error) THEN response.error[1]
            ELSE IF Truthy(dataError(response)) THEN dataError(response)[1]
            ELSE "Failed to " \o operation
    IN  Error(errorMessage, response.status)

\* !response.data: undefined and null are falsy, an object is not.
absent(data) == data = <<>> \/ data[1] = Null

Returned(v) == [t |-> "returned", v |-> v]
NoResult == [t |-> "none"]

\* Faulty variant of operationResult: the data is returned whenever there is
\* some, whatever response.ok says.
operationResult_IgnoresOk(response, operation) ==
    IF absent(response.data) THEN handleApiError(response, operation)
    ELSE Returned(response.data[1])

\* Faulty variant of operationResult: the data field of the envelope is
\* returned in place of the envelope.
operationResult_Unwraps(response, operation) ==
    IF ~response.ok \/ absent(response.data)
    THEN handleApiError(response, operation)
    ELSE IF response.data[1].data # <<>>
         THEN Returned(response.data[1].data[1])
         ELSE Returned(response.data[1])

\* The tail of every operation: if (!response.ok || !response.data) throw
\* handleApiError(response, operation); return response.data.
operationResult(response, operation) ==
    IF ~response.ok \/ absent(response.data)
    THEN handleApiError(response, operation)
    ELSE Returned(response.data[1])

(***************************************************************************)
(* The calls.                                                              *)
(***************************************************************************)
\* History of a call: its name and argument, and two facts about the state it
\* found: what findIndex returned for the argument's id (-1 when absent or not
\* asked) and how many entries state.recipes held; whether the storage failed
\* under it ("write", "read") and whether the call threw to its caller.
Call(op, recipe, rs, existingIndex) ==
    [op |-> op, recipe |-> recipe, recipes |-> rs,
     existingIndex |-> existingIndex, sizeBefore |-> Len(recipes.v),
     fault |-> "none", threw |-> FALSE]

NoCall == [op |-> "create", recipe |-> <<>>, recipes |-> <<>>,
           existingIndex |-> -1, sizeBefore |-> 0,
           fault |-> "none", threw |-> FALSE]

setRecipe(recipe) ==
    /\ set(setRecipeUpdater(State, recipe))
    /\ last' = Call("setRecipe", <<recipe>>, <<>>, findIndex(recipeList, recipe.id))

setRecipes(rs) ==
    /\ set(setRecipesUpdater(State, rs))
    /\ last' = Call("setRecipes", <<>>, rs, -1)

\* Faulty variant of clear: the state is reset and the stored record removed
\* instead of rewritten.
clear_RemovesItem ==
    /\ recipes' = clearState.recipes
    /\ recipeList' = clearState.recipeList
    /\ localStorage' = {p \in localStorage : p[1] # StorageName}
    /\ last' = Call("clear", <<>>, <<>>, -1)

clear ==
    /\ set(clearState)
    /\ last' = Call("clear", <<>>, <<>>, -1)

\* A new process: the in-memory instance is gone, persist restores the snapshot.
hydrate ==
    /\ recipes' = hydrated(localStorage).recipes
    /\ recipeList' = hydrated(localStorage).recipeList
    /\ UNCHANGED localStorage
    /\ last' = Call("hydrate", <<>>, <<>>, -1)

\* No client operation has been made, and no hook has a fetch in flight.
NoRequest ==
    [op |-> "none", token |-> <<>>, headers |-> {}, fetched |-> NoFetch,
     response |-> NetworkResponse(FALSE, 0, <<>>, <<>>), result |-> NoResult]

ClientIdle == authToken = <<>> /\ call = NoRequest

\* The QueryClient's cache before any query ran.  A detail query holds its
\* data (<<>> when it has none);
\* the list query holds, for each page fetched, its pageParam and the number
\* of its recipes, the nextOffset of the last page (<<>> when undefined) and
\* whether it was invalidated.
NoData == [data |-> <<>>]
NoPages == [pages |-> <<>>, nextOffset |-> <<>>, invalidated |-> FALSE]
EmptyCache ==
    [detail |-> [id \in Ids |-> NoData], list |-> NoPages]

\* History of a hook: which hook, with which parameter (<<>> when null),
\* whether it rendered, settled or was cancelled, the data it shows or
\* resolved to, whether a fetch is out for it, its status, and the calls it
\* made in their order.
Event(hook, param, phase, data, fetching, status, effects) ==
    [hook |-> hook, param |-> param, phase |-> phase, data |-> data,
     fetching |-> fetching, status |-> status, effects |-> effects]
NoEvent == Event("none", <<>>, "none", <<>>, FALSE, "pending", <<>>)

HooksIdle == inflight = {} /\ queryCache = EmptyCache /\ event = NoEvent

\* The store as created in a process that finds no snapshot.
InitStore ==
    /\ recipes = InitialState.recipes
    /\ recipeList = InitialState.recipeList
    /\ localStorage = {}
    /\ last = NoCall

Init == InitStore /\ ClientIdle /\ HooksIdle

Next ==
    \/ \E recipe \in Recipe : setRecipe(recipe) /\ UNCHANGED <<clientVars, hookVars>>
    \/ \E rs \in Batches : setRecipes(rs) /\ UNCHANGED <<clientVars, hookVars>>
    \/ clear /\ UNCHANGED <<clientVars, hookVars>>
    \/ hydrate /\ UNCHANGED <<clientVars, hookVars>>

Spec == Init /\ [][Next]_vars

(***************************************************************************)
(* The store over a storage that can fail: localStorage.setItem and        *)
(* localStorage.getItem may throw, and the stored record may be text that  *)
(* JSON.parse rejects.                                                     *)
(***************************************************************************)
\* A stored record that is not JSON.
CorruptText == [syntaxError |-> TRUE]

\* persist can read the record: none is stored, or the one stored parses.
Readable(storage) == getItem(storage, StorageName) # <<CorruptText>>

\* persist's set when localStorage.setItem throws: set has applied the new
\* state before the write is attempted, nothing is stored, and the exception
\* leaves set.
setThrows(next) ==
    /\ recipes' = next.recipes
    /\ recipeList' = next.recipeList
    /\ UNCHANGED localStorage

\* The store's methods call set with no try/catch around it: what set throws,
\* the method throws to its caller.
Thrown(c) == [c EXCEPT !.fault = "write", !.threw = TRUE]

setRecipeWriteFails(recipe) ==
    /\ setThrows(setRecipeUpdater(State, recipe))
    /\ last' = Thrown(Call("setRecipe", <<recipe>>, <<>>,
                           findIndex(recipeList, recipe.id)))

setRecipesWriteFails(rs) ==
    /\ setThrows(setRecipesUpdater(State, rs))
    /\ last' = Thrown(Call("setRecipes", <<>>, rs, -1))

clearWriteFails ==
    /\ setThrows(clearState)
    /\ last' = Thrown(Call("clear", <<>>, <<>>, -1))

\* Faulty variant of restoreFailed: the unreadable snapshot is merged as it is,
\* which leaves state.recipes undefined.
restoreFailed_MergesUndefined ==
    [recipes |-> [t |-> "undefined", v |-> <<>>], recipeList |-> <<>>]

\* The state of a new instance whose restore failed: persist catches what
\* getItem (the read, or JSON.parse in it) throws and never calls set, so the
\* state stays the one the store was created with.
restoreFailed == InitialState

\* A new process whose restore fails: the read throws, or the record is not
\* JSON.
hydrateFails ==
    /\ recipes' = restoreFailed.recipes
    /\ recipeList' = restoreFailed.recipeList
    /\ UNCHANGED localStorage
    /\ last' = [Call("hydrate", <<>>, <<>>, -1) EXCEPT !.fault = "read"]

\* The environment damages the stored record.
storageCorrupted ==
    /\ localStorage' = setItem(localStorage, StorageName, CorruptText)
    /\ UNCHANGED <<recipes, recipeList, last>>

\* The batches tried over the failing storage.
MaxFaultBatch == 1
FaultBatches == SeqsUpTo(Recipe, MaxFaultBatch)

NextFault ==
    \/ \E recipe \in Recipe : setRecipe(recipe) /\ UNCHANGED <<clientVars, hookVars>>
    \/ \E rs \in FaultBatches : setRecipes(rs) /\ UNCHANGED <<clientVars, hookVars>>
    \/ clear /\ UNCHANGED <<clientVars, hookVars>>
    \/ Readable(localStorage) /\ hydrate /\ UNCHANGED <<clientVars, hookVars>>
    \/ \E recipe \in Recipe :
           setRecipeWriteFails(recipe) /\ UNCHANGED <<clientVars, hookVars>>
    \/ \E rs \in FaultBatches :
           setRecipesWriteFails(rs) /\ UNCHANGED <<clientVars, hookVars>>
    \/ clearWriteFails /\ UNCHANGED <<clientVars, hookVars>>
    \/ hydrateFails /\ UNCHANGED <<clientVars, hookVars>>
    \/ storageCorrupted /\ UNCHANGED <<clientVars, hookVars>>

SpecFault == Init /\ [][NextFault]_vars

(***************************************************************************)
(* The calls of the endpoint client.                                       *)
(***************************************************************************)
getAuthToken == authToken

setAuthToken(token) ==
    /\ authToken' = token
    /\ call' = [NoRequest EXCEPT !.op = "setAuthToken", !.token = token]

\* An operation of a client built over FetchNetworkClient, with what fetch
\* does for its request.
operation(op, fetched) ==
    /\ call' = [op |-> op, token |-> authToken,
                headers |-> requestHeaders(operationHeaders(authToken)),
                fetched |-> fetched,
                response |-> request(fetched),
                result |-> operationResult(request(fetched), op)]
    /\ UNCHANGED authToken

\* An operation of a client built over another NetworkClient, with the result
\* that client resolves to.
operationOver(op, response) ==
    /\ call' = [op |-> op, token |-> authToken,
                headers |-> operationHeaders(authToken),
                fetched |-> NoFetch,
                response |-> response,
                result |-> operationResult(response, op)]
    /\ UNCHANGED authToken

NextNet ==
    \/ \E token \in {<<>>} \cup {<<t>> : t \in Tokens} :
           setAuthToken(token) /\ UNCHANGED <<storeVars, hookVars>>
    \/ \E op \in Operations, fetched \in FetchOutcomes :
           operation(op, fetched) /\ UNCHANGED <<storeVars, hookVars>>
    \/ \E op \in Operations, response \in TransportResults :
           operationOver(op, response) /\ UNCHANGED <<storeVars, hookVars>>

SpecNet == Init /\ [][NextNet]_vars

(***************************************************************************)
(* The hooks: useRecipes and useRecipe, whose query functions await the    *)
(* client and then write the store.  JavaScript runs each continuation to  *)
(* completion, so what follows an await is one step.                       *)
(***************************************************************************)
\* The fetches that can be in flight: the list query and a detail query for
\* each id.
Fetches ==
    {[hook |-> "useRecipes", param |-> 0]}
        \cup {[hook |-> "useRecipe", param |-> id] : id \in Ids}

\* What the transport resolves to for a query: a 2xx response whose envelope
\* carries one of datas, a 2xx response whose envelope carries no data, or a
\* failure.
QueryResponses(datas) ==
    {NetworkResponse(TRUE, 200, <<Envelope(TRUE, <<d>>, <<>>)>>, <<>>) :
         d \in datas}
        \cup {NetworkResponse(TRUE, 200, <<FailEnvelope>>, <<>>),
              NetworkResponse(FALSE, 500, <<>>, <<"Failed to fetch">>)}

\* response.data || [] and response.data of the envelope the client returned.
dataOrEmpty(envelope) ==
    IF envelope.data = <<>> THEN <<>> ELSE envelope.data[1]

\* A query function is called: its request leaves.
startFetch(f) ==
    /\ f \in Fetches \ inflight
    /\ inflight' = inflight \cup {f}
    /\ UNCHANGED <<storeVars, clientVars>>

\* useRecipes' queryFn after await client.getRecipes(...): a page that is
\* not empty goes to setRecipes; an empty page, or an error raised by the
\* client, writes nothing.
useRecipesQueryFn(f, response) ==
    LET result == operationResult(response, "get recipes")
        page == IF result.t = "returned" THEN dataOrEmpty(result.v) ELSE <<>>
    IN  /\ f \in inflight
        /\ f.hook = "useRecipes"
        /\ inflight' = inflight \ {f}
        /\ IF Len(page) > 0 THEN setRecipes(page) ELSE UNCHANGED storeVars
        /\ UNCHANGED clientVars

\* useRecipe's queryFn after await client.getRecipeById(recipeId): the
\* recipe goes to setRecipe; without one 'Recipe not found' is thrown, and an
\* error raised by the client passes through; neither writes.
useRecipeQueryFn(f, response) ==
    LET result == operationResult(response, "get recipe by id")
        found == IF result.t = "returned" THEN result.v.data ELSE <<>>
    IN  /\ f \in inflight
        /\ f.hook = "useRecipe"
        /\ inflight' = inflight \ {f}
        /\ IF found # <<>> THEN setRecipe(found[1]) ELSE UNCHANGED storeVars
        /\ UNCHANGED clientVars

NextHooks ==
    \/ \E f \in Fetches : startFetch(f) /\ UNCHANGED queryVars
    \/ \E f \in Fetches, response \in QueryResponses(Batches) :
           useRecipesQueryFn(f, response) /\ UNCHANGED queryVars
    \/ \E f \in Fetches, response \in QueryResponses(Recipe) :
           useRecipeQueryFn(f, response) /\ UNCHANGED queryVars

SpecHooks == Init /\ [][NextHooks]_vars

(***************************************************************************)
(* The hooks over the QueryClient: useRecipes (an infinite query),         *)
(* useRecipe (a query) and useCreateRecipe (a mutation).  The QueryClient  *)
(* calls a query function when a hook mounts without fresh data, keeps     *)
(* what it resolves to, and discards the outcome of a fetch it cancelled;  *)
(* the query functions take no AbortSignal, so the request of a cancelled  *)
(* fetch stays out and its continuation runs when the response arrives.    *)
(***************************************************************************)
\* useRecipes(client, limit): the page size asked for, and the number of
\* pages the list query is followed for.
Limit == 2
MaxPages == 2
Offsets == {k * Limit : k \in 0..(MaxPages - 1)}

\* The pages a server that honours limit answers with.
Pages == SeqsUpTo(Recipe, Limit)

ListFetch(offset) == [hook |-> "useRecipes", param |-> offset]
DetailFetch(id) == [hook |-> "useRecipe", param |-> id]
CreateFetch == [hook |-> "useCreateRecipe", param |-> 0]
QueryFetches ==
    Fetches \cup {ListFetch(o) : o \in Offsets} \cup {CreateFetch}

\* Faulty variant of listPage: any page that is not empty has a next page.
listPage_WhenNotEmpty(page, pageParam) ==
    [recipes |-> page,
     nextOffset |-> IF Len(page) > 0 THEN <<pageParam + Limit>> ELSE <<>>]

\* What useRecipes' queryFn returns:
\* {recipes, nextOffset: recipes.length === limit ? pageParam + limit : undefined}.
listPage(page, pageParam) ==
    [recipes |-> page,
     nextOffset |-> IF Len(page) = Limit THEN <<pageParam + Limit>> ELSE <<>>]

\* getNextPageParam: (lastPage) => lastPage.nextOffset; there is a next page
\* when it is not undefined.
getNextPageParam(lastPage) == lastPage.nextOffset
hasNextPage(list) == list.pages # <<>> /\ list.nextOffset # <<>>

\* The list query after a page resolved: the first page starts the pages
\* anew, a further page is appended.
pageResolved(list, pageParam, lastPage) ==
    LET entry == [pageParam |-> pageParam, count |-> Len(lastPage.recipes)]
    IN  IF pageParam = 0
        THEN [pages |-> <<entry>>,
              nextOffset |-> getNextPageParam(lastPage),
              invalidated |-> FALSE]
        ELSE [pages |-> Append(list.pages, entry),
              nextOffset |-> getNextPageParam(lastPage),
              invalidated |-> list.invalidated]

\* The recipe an operation resolved to: response.data of the envelope the
\* client returned, <<>> when there is none or the client raised.
recipeOf(response, op) ==
    LET result == operationResult(response, op)
    IN  IF result.t = "returned" THEN result.v.data ELSE <<>>

\* How a fetch settles: the QueryClient ignores a fetch it cancelled, and a
\* query function that threw gives an error.
settledAs(cancelled, threw) ==
    IF cancelled THEN "cancelled"
    ELSE IF threw THEN "error" ELSE "success"

\* useRecipes mounts: the first page is fetched when the query has no pages
\* or was invalidated, unless a list fetch is out.
useRecipesRenders ==
    LET f == ListFetch(0)
        fetches == /\ queryCache.list.pages = <<>> \/ queryCache.list.invalidated
                   /\ \A g \in inflight : g.hook # "useRecipes"
                   /\ f \notin inflight
    IN  /\ inflight' = IF fetches THEN inflight \cup {f} ELSE inflight
        /\ event' = Event("useRecipes", <<0>>, "rendered", <<>>,
                          \E g \in inflight' : g.hook = "useRecipes",
                          IF queryCache.list.pages = <<>> THEN "pending"
                          ELSE "success",
                          IF fetches THEN <<"getRecipes">> ELSE <<>>)
        /\ UNCHANGED <<storeVars, clientVars, queryCache>>

\* fetchNextPage(): the page at nextOffset is fetched when there is a next
\* page; without one no request is made.
fetchNextPage ==
    LET list == queryCache.list
        fetches == /\ hasNextPage(list)
                   /\ Len(list.pages) < MaxPages
                   /\ \A g \in inflight : g.hook # "useRecipes"
                   /\ ListFetch(list.nextOffset[1]) \notin inflight
    IN  /\ list.pages # <<>>
        /\ inflight' = IF fetches
                       THEN inflight \cup {ListFetch(list.nextOffset[1])}
                       ELSE inflight
        /\ event' = Event("useRecipes", list.nextOffset, "fetchNextPage", <<>>,
                          fetches, "success",
                          IF fetches THEN <<"getRecipes">> ELSE <<>>)
        /\ UNCHANGED <<storeVars, clientVars, queryCache>>

\* The response of a list fetch arrives, cancelled telling whether the
\* QueryClient had cancelled the fetch meanwhile (queryClient.cancelQueries,
\* which aborts no request): the queryFn runs on, and the QueryClient keeps
\* the page unless the fetch was cancelled or threw.
useRecipesSettles(f, response, cancelled) ==
    LET result == operationResult(response, "get recipes")
        page == IF result.t = "returned" THEN dataOrEmpty(result.v) ELSE <<>>
        status == settledAs(cancelled, result.t = "Error")
    IN  /\ useRecipesQueryFn(f, response)
        /\ queryCache' =
               [queryCache EXCEPT
                    !.list = IF status = "success"
                             THEN pageResolved(@, f.param,
                                               listPage(page, f.param))
                             ELSE @]
        /\ event' = Event("useRecipes", <<f.param>>, "settled", page, FALSE,
                          status,
                          IF Len(page) > 0 THEN <<"setRecipes">> ELSE <<>>)

\* Faulty variant of placeholderData: the store is not asked.
placeholderData_Never(state, recipeId) == Undefined

\* placeholderData of useRecipe:
\* recipeId && hasRecipe(recipeId) ? getRecipe(recipeId) : undefined,
\* with null as <<>>; null and 0 are falsy.
placeholderData(state, recipeId) ==
    IF recipeId = <<>> \/ recipeId[1] = 0 THEN Undefined
    ELSE IF hasRecipe(state, recipeId[1]) = TypeError THEN TypeError
    ELSE IF hasRecipe(state, recipeId[1]) = Value(TRUE)
         THEN getRecipe(state, recipeId[1])
         ELSE Undefined

\* Faulty variant of enabled: the query is always enabled.
enabled_Always(recipeId) == TRUE

\* enabled: !!recipeId.
enabled(recipeId) == recipeId # <<>> /\ recipeId[1] # 0

\* useRecipe(client, recipeId) mounts, stale telling whether the staleTime
\* (10 minutes) has passed since the query got its data.  The QueryClient
\* shows the data of the query if it has some, else the placeholder; it
\* calls the queryFn when the query is enabled and has no data or stale
\* data, unless its fetch is out already.
useRecipeRenders(recipeId, stale) ==
    LET placeholder == placeholderData(State, recipeId)
        entry == IF recipeId = <<>> THEN NoData
                 ELSE queryCache.detail[recipeId[1]]
        f == DetailFetch(IF recipeId = <<>> THEN 0 ELSE recipeId[1])
        fetches == /\ enabled(recipeId)
                   /\ entry.data = <<>> \/ stale
                   /\ f \notin inflight
        data == IF entry.data # <<>> THEN entry.data
                ELSE IF placeholder[1] = "value" THEN <<placeholder[2]>>
                ELSE <<>>
    IN  /\ placeholder # TypeError
        /\ inflight' = IF fetches THEN inflight \cup {f} ELSE inflight
        /\ event' = Event("useRecipe", recipeId, "rendered", data,
                          f \in inflight',
                          IF data # <<>> THEN "success" ELSE "pending",
                          IF fetches THEN <<"getRecipeById">> ELSE <<>>)
        /\ UNCHANGED <<storeVars, clientVars, queryCache>>

\* The response of a detail fetch arrives, cancelled telling whether the
\* QueryClient had cancelled the fetch meanwhile: the queryFn runs on, and
\* the QueryClient keeps the recipe unless the fetch was cancelled or threw.
useRecipeSettles(f, response, cancelled) ==
    LET found == recipeOf(response, "get recipe by id")
        status == settledAs(cancelled, found = <<>>)
    IN  /\ useRecipeQueryFn(f, response)
        /\ queryCache' =
               [queryCache EXCEPT
                    !.detail[f.param] =
                        IF status = "success"
                        THEN [data |-> found]
                        ELSE @]
        /\ event' = Event("useRecipe", <<f.param>>, "settled", found, FALSE,
                          status,
                          IF found # <<>> THEN <<"setRecipe">> ELSE <<>>)

\* mutate(request) of useCreateRecipe: the mutationFn is called.
mutate ==
    /\ CreateFetch \notin inflight
    /\ inflight' = inflight \cup {CreateFetch}
    /\ event' = Event("useCreateRecipe", <<>>, "mutate", <<>>, TRUE,
                      "pending", <<"generateRecipe">>)
    /\ UNCHANGED <<storeVars, clientVars, queryCache>>

\* The calls of onSuccess, in their order.
onSuccessCalls == <<"setRecipe", "invalidateQueries", "setQueryData">>

\* Faulty variant of onSuccess: the store is written and the QueryClient is
\* left alone.
onSuccess_StoreOnly(recipe) ==
    /\ setRecipe(recipe)
    /\ UNCHANGED queryCache

\* onSuccess(recipe): setRecipe(recipe), then invalidateQueries for
\* ['recipes', 'list'], then setQueryData(['recipes', 'detail', recipe.id]).
onSuccess(recipe) ==
    /\ setRecipe(recipe)
    /\ queryCache' =
           [queryCache EXCEPT
                !.list.invalidated = TRUE,
                !.detail[recipe.id] = [data |-> <<recipe>>]]

\* The response of generateRecipe arrives: the mutationFn returns the recipe
\* and onSuccess runs, or it throws ('Failed to create recipe', or what the
\* client raised) and onSuccess does not run.
useCreateRecipeSettles(response) ==
    LET found == recipeOf(response, "generate recipe")
    IN  /\ CreateFetch \in inflight
        /\ inflight' = inflight \ {CreateFetch}
        /\ IF found # <<>> THEN onSuccess(found[1])
           ELSE UNCHANGED <<storeVars, queryCache>>
        /\ event' = Event("useCreateRecipe", <<>>, "settled", found, FALSE,
                          IF found # <<>> THEN "success" ELSE "error",
                          IF found # <<>> THEN onSuccessCalls ELSE <<>>)
        /\ UNCHANGED clientVars

\* The responses to a first page: a page of one recipe or none, whatever
\* limit is.
FirstPages == {<<>>} \cup {<<recipe>> : recipe \in Recipe}

\* The three hooks with one request out at a time: a hook mounts, or mutate
\* is called, once the request before has been answered.
NextQuery ==
    \/ inflight = {} /\ useRecipesRenders
    \/ \E f \in QueryFetches, response \in QueryResponses(FirstPages),
          cancelled \in BOOLEAN :
           useRecipesSettles(f, response, cancelled)
    \/ \E recipeId \in {<<>>} \cup {<<id>> : id \in Ids}, stale \in BOOLEAN :
           inflight = {} /\ useRecipeRenders(recipeId, stale)
    \/ \E f \in QueryFetches, response \in QueryResponses(Recipe),
          cancelled \in BOOLEAN :
           useRecipeSettles(f, response, cancelled)
    \/ inflight = {} /\ mutate
    \/ \E response \in QueryResponses(Recipe) : useCreateRecipeSettles(response)
    \/ clear /\ UNCHANGED <<clientVars, hookVars>>

SpecQuery == Init /\ [][NextQuery]_vars

\* The list query followed page by page.
NextPages ==
    \/ useRecipesRenders
    \/ fetchNextPage
    \/ \E f \in QueryFetches, response \in QueryResponses(Pages),
          cancelled \in BOOLEAN :
           useRecipesSettles(f, response, cancelled)

SpecPages == Init /\ [][NextPages]_vars

\* The list query and the detail queries mounted side by side: their
\* requests are out together and the responses, none of them of a cancelled
\* fetch, arrive in any order.
NextRace ==
    \/ useRecipesRenders
    \/ \E f \in QueryFetches, response \in QueryResponses(FirstPages) :
           useRecipesSettles(f, response, FALSE)
    \/ \E id \in Ids, stale \in BOOLEAN : useRecipeRenders(<<id>>, stale)
    \/ \E f \in QueryFetches, response \in QueryResponses(Recipe) :
           useRecipeSettles(f, response, FALSE)

SpecRace == Init /\ [][NextRace]_vars

(***************************************************************************)
(* Properties.                                                             *)
(***************************************************************************)
ListIds(list) == {list[i].id : i \in DOMAIN list}

\* The last position of list holding id.
LastIndexOf(list, id) ==
    CHOOSE i \in DOMAIN list :
        /\ list[i].id = id
        /\ \A j \in (i + 1)..Len(list) : list[j].id # id

\* What a reader of the cache can see: every point lookup, every membership
\* check and the list.
Observable(state) ==
    [get |-> [id \in Ids |-> getRecipe(state, id)],
     has |-> [id \in Ids |-> hasRecipe(state, id)],
     list |-> state.recipeList]

Mutated == last.op \in {"setRecipe", "setRecipes", "clear"}

\* C1 as stated: in every reachable state, every element of recipeList is
\* exactly what the recipes map holds under its id.
C1_ListMatchesMap ==
    \A i \in DOMAIN recipeList :
        getRecipe(State, recipeList[i].id) = Value(recipeList[i])

\* C1 amended: in every reachable state, every id present in recipeList has an
\* entry in the recipes map, and that entry is identical to an element of the
\* list with that id: to the element itself whenever the id occurs once.
C1_ListBackedByMap ==
    \A i \in DOMAIN recipeList :
        LET id == recipeList[i].id
            same == {j \in DOMAIN recipeList : recipeList[j].id = id}
        IN  /\ hasRecipe(State, id) = Value(TRUE)
            /\ \E j \in same : getRecipe(State, id) = Value(recipeList[j])
            /\ same = {i} => getRecipe(State, id) = Value(recipeList[i])

\* C1 witness: after a mutation the list holds two different recipes under one
\* id, and a third element whose id occurs once.
C1_Witness ==
    /\ Mutated
    /\ \E i, j \in DOMAIN recipeList :
           /\ i # j
           /\ recipeList[i].id = recipeList[j].id
           /\ recipeList[i] # recipeList[j]
    /\ \E i \in DOMAIN recipeList :
           \A j \in DOMAIN recipeList \ {i} : recipeList[j].id # recipeList[i].id

\* C2 as stated: a restart (the in-memory instance discarded, the state restored
\* from the snapshot) changes no result of getRecipe or hasRecipe and leaves
\* recipeList as it was.
C2_RoundTrip ==
    [][last'.op = "hydrate" => Observable(State)' = Observable(State)]_vars

\* C3: after setRecipe(e) returns, getRecipe(e.id) returns exactly e and
\* hasRecipe(e.id) is true.
C3_SetThenGet ==
    last.op = "setRecipe" =>
        LET e == last.recipe[1]
        IN  /\ getRecipe(State, e.id) = Value(e)
            /\ hasRecipe(State, e.id) = Value(TRUE)

\* C3 witness: setRecipe(e) has overwritten an entry of a map that held two ids.
C3_Witness ==
    /\ last.op = "setRecipe"
    /\ last.sizeBefore = 2
    /\ getRecipe(State, last.recipe[1].id) = Value(last.recipe[1])

\* C4: when recipeList holds e1 with id k and setRecipe(e2) is called with the
\* same id, the list keeps its length, the position of e1 (the first position
\* holding id k, which is the one findIndex reports) now holds e2, and every
\* other position is unchanged.
C4_UpdateInPlace ==
    [][last'.op = "setRecipe" =>
          LET e2 == last'.recipe[1]
          IN  \A p \in DOMAIN recipeList :
                  (/\ recipeList[p].id = e2.id
                   /\ \A j \in 1..(p - 1) : recipeList[j].id # e2.id)
                  => /\ Len(recipeList') = Len(recipeList)
                     /\ recipeList'[p] = e2
                     /\ \A q \in DOMAIN recipeList \ {p} :
                            recipeList'[q] = recipeList[q]]_vars

\* C4 witness: setRecipe(e2) found its id at the second position of a list of
\* three, and the list now holds e2 there.
C4_Witness ==
    /\ last.op = "setRecipe"
    /\ last.existingIndex = 1
    /\ Len(recipeList) = 3
    /\ recipeList[2] = last.recipe[1]

\* C5: setRecipe(e) with an id the list does not hold puts e at index 0 with the
\* previous elements after it in their order, one element more than before; and
\* no setRecipe call lengthens the list by more than one.
C5_InsertAtFront ==
    [][last'.op = "setRecipe" =>
          LET e == last'.recipe[1]
          IN  /\ e.id \notin ListIds(recipeList) =>
                     /\ recipeList' = <<e>> \o recipeList
                     /\ Len(recipeList') = Len(recipeList) + 1
              /\ Len(recipeList') <= Len(recipeList) + 1]_vars

\* C5 witness: setRecipe(e) did not find its id in a list of two, and the list
\* now holds three elements with e first.
C5_Witness ==
    /\ last.op = "setRecipe"
    /\ last.existingIndex = -1
    /\ Len(recipeList) = 3
    /\ recipeList[1] = last.recipe[1]

\* C6 as stated: after setRecipes(S), recipeList equals S and getRecipe returns
\* every element of S under its id.
C6_AllRetrievable ==
    last.op = "setRecipes" =>
        LET S == last.recipes
        IN  /\ recipeList = S
            /\ \A i \in DOMAIN S : getRecipe(State, S[i].id) = Value(S[i])

\* C6 amended: after setRecipes(S), recipeList equals S exactly, in the same
\* order, and for every id occurring in S getRecipe returns the last element of
\* S with that id (every element of S when no id repeats in S).
C6_ListIsInput ==
    last.op = "setRecipes" =>
        LET S == last.recipes
        IN  /\ recipeList = S
            /\ \A i \in DOMAIN S :
                   getRecipe(State, S[i].id) = Value(S[LastIndexOf(S, S[i].id)])

\* C6 witness: setRecipes(S) was called on a populated cache with an S that
\* holds two different recipes under one id.
C6_Witness ==
    /\ last.op = "setRecipes"
    /\ last.sizeBefore > 0
    /\ recipeList = last.recipes
    /\ \E i, j \in DOMAIN last.recipes :
           /\ i < j
           /\ last.recipes[i].id = last.recipes[j].id
           /\ last.recipes[i] # last.recipes[j]

\* C7: setRecipes(S) removes no id from the recipes map, and getRecipe for an id
\* that was present before the call and is absent from S still returns the
\* value it returned before.
C7_MapIsMerged ==
    [][last'.op = "setRecipes" =>
          \A id \in Ids :
              hasRecipe(State, id) = Value(TRUE) =>
                  /\ hasRecipe(State, id)' = Value(TRUE)
                  /\ id \notin ListIds(last'.recipes) =>
                         getRecipe(State, id)' = getRecipe(State, id)]_vars

\* C7 witness: after setRecipes(S) on a populated cache the map holds an id that
\* S does not.
C7_Witness ==
    /\ last.op = "setRecipes"
    /\ last.sizeBefore > 0
    /\ \E id \in Ids :
           /\ id \notin ListIds(last.recipes)
           /\ hasRecipe(State, id) = Value(TRUE)

\* C8: after clear(), hasRecipe(id) is false for every id, the recipes map has
\* size 0 and recipeList is empty; and a clear() that follows a clear() leaves
\* the map, the list and the stored snapshot as the first one left them.
C8_ClearEmpties ==
    /\ [](last.op = "clear" =>
              /\ \A id \in Ids : hasRecipe(State, id) = Value(FALSE)
              /\ recipes.t = "Map"
              /\ Len(recipes.v) = 0
              /\ recipeList = <<>>)
    /\ [][(last.op = "clear" /\ last'.op = "clear") =>
              UNCHANGED <<recipes, recipeList, localStorage>>]_vars

\* C8 witness: clear() was called on a cache that held two recipes, and the
\* cache is empty.
C8_Witness ==
    /\ last.op = "clear"
    /\ last.sizeBefore = 2
    /\ recipes = JMap(<<>>)
    /\ recipeList = <<>>

\* C9 as stated: after clear() returns, no record exists in storage under
\* 'mixr-recipe-storage'.
C9_ClearErasesSnapshot ==
    last.op = "clear" => getItem(localStorage, StorageName) = <<>>

\* C9 amended: after clear() returns, the record under 'mixr-recipe-storage'
\* exists and encodes the empty state (no map entries, an empty recipeList): the
\* snapshot is reset, not removed.
C9_ClearResetsSnapshot ==
    last.op = "clear" =>
        getItem(localStorage, StorageName) =
            <<[state |-> [recipes |-> JArr(<<>>), recipeList |-> JArr(<<>>)],
               version |-> 0]>>

\* C9 witness: clear() was called on a populated cache and a record is stored
\* under the storage name.
C9_Witness ==
    /\ last.op = "clear"
    /\ last.sizeBefore > 0
    /\ getItem(localStorage, StorageName) # <<>>

\* C10: after setRecipe or setRecipes completes, the record under
\* 'mixr-recipe-storage' exists and encodes exactly the current recipes map
\* (its entries, as [id, recipe] pairs) and the current recipeList.
C10_SnapshotIsCurrent ==
    last.op \in {"setRecipe", "setRecipes"} =>
        LET item == getItem(localStorage, StorageName)
        IN  /\ item # <<>>
            /\ recipes.t = "Map"
            /\ item[1].state.recipes =
                   JArr([i \in DOMAIN recipes.v |->
                            JArr(<<JNum(recipes.v[i][1]), JObj(recipes.v[i][2])>>)])
            /\ item[1].state.recipeList =
                   JArr([i \in DOMAIN recipeList |-> JObj(recipeList[i])])

\* C10 witness: a setRecipe call has changed a populated cache, and the stored
\* record holds two map entries and the recipe just written.
C10_Witness ==
    /\ last.op = "setRecipe"
    /\ last.sizeBefore > 0
    /\ LET item == getItem(localStorage, StorageName)
       IN  /\ item # <<>>
           /\ Len(item[1].state.recipes.v) = 2
           /\ \E i \in DOMAIN item[1].state.recipeList.v :
                  item[1].state.recipeList.v[i] = JObj(last.recipe[1])

\* C11 as stated: in every reachable state, a state just restored from a
\* snapshot the cache wrote included, getRecipe(id) does not throw and returns
\* the stored recipe or undefined, and hasRecipe(id) returns a boolean.
C11_LookupsNeverThrow ==
    \A id \in Ids :
        /\ getRecipe(State, id) # TypeError
        /\ hasRecipe(State, id) \in {Value(TRUE), Value(FALSE)}
        /\ hasRecipe(State, id) = Value(FALSE) => getRecipe(State, id) = Undefined

\* C12 as stated: when the storage write fails under setRecipe, setRecipes or
\* clear, the call does not throw to its caller and the in-memory state is the
\* one the mutation produces when the write succeeds.
C12_WriteFailureSwallowed ==
    [][last'.fault = "write" =>
          /\ ~last'.threw
          /\ last'.op = "setRecipe" =>
                 State' = setRecipeUpdater(State, last'.recipe[1])
          /\ last'.op = "setRecipes" =>
                 State' = setRecipesUpdater(State, last'.recipes)
          /\ last'.op = "clear" => State' = clearState]_vars

\* C13: when the restore fails (the read throws or the record cannot be
\* decoded) the cache starts empty, with an empty Map and an empty list, its
\* lookups answer as on a fresh cache, and the next setRecipe, setRecipes or
\* clear leaves exactly what it leaves on a fresh empty cache.
C13_FailedRestoreStartsEmpty ==
    /\ [](last.fault = "read" =>
              /\ ~last.threw
              /\ recipes = JMap(<<>>)
              /\ recipeList = <<>>
              /\ \A id \in Ids :
                     /\ getRecipe(State, id) = Undefined
                     /\ hasRecipe(State, id) = Value(FALSE))
    /\ [][last.fault = "read" =>
              /\ last'.op = "setRecipe" =>
                     LET e == last'.recipe[1]
                     IN  /\ recipes' = JMap(<<<<e.id, e>>>>)
                         /\ recipeList' = <<e>>
              /\ last'.op = "setRecipes" =>
                     /\ recipeList' = last'.recipes
                     /\ MapKeys(recipes') = ListIds(last'.recipes)
              /\ last'.op = "clear" =>
                     /\ recipes' = JMap(<<>>)
                     /\ recipeList' = <<>>]_vars

\* C13 witness: a populated cache was written, the stored record was damaged,
\* and the restore that failed on it left an empty Map and an empty list.
C13_Witness ==
    /\ last.op = "hydrate"
    /\ last.fault = "read"
    /\ last.sizeBefore > 0
    /\ getItem(localStorage, StorageName) = <<CorruptText>>
    /\ recipes = JMap(<<>>)

\* The errors an operation raises when the network fails: fetch threw.
NetworkFailureErrors(op) ==
    {operationResult(request(f), op) : f \in {o \in FetchOutcomes : o.t = "throws"}}

\* C14: an operation whose transport result has ok = false raises an error
\* whose message carries the status of the result; one whose result has
\* ok = true and no data raises too, with an error that is none of the errors
\* of a network failure; neither returns a payload.
C14_ErrorsRaise ==
    call.op \in Operations =>
        /\ ~call.response.ok =>
               /\ call.result.t = "Error"
               /\ call.result.status = call.response.status
        /\ call.response.ok /\ absent(call.response.data) =>
               /\ call.result.t = "Error"
               /\ call.result.status = call.response.status
               /\ call.result \notin NetworkFailureErrors(call.op)

\* C14 witness: a 404 result that carries a body was raised as an error with
\* 404 in it.
C14_Witness ==
    /\ call.op \in Operations
    /\ ~call.response.ok
    /\ call.response.status = 404
    /\ call.response.data # <<>>
    /\ call.result = Error("Recipe not found", 404)

\* C15 as stated: an operation that returns, returns the value of the data
\* field of the envelope it received.
C15_ReturnsDataField ==
    (/\ call.op \in Operations
     /\ call.result.t = "returned"
     /\ call.response.data[1].data # <<>>)
        => call.result.v = call.response.data[1].data[1]

\* C15 amended: an operation whose transport result is ok and has data
\* returns that data as it is, which is the whole envelope.
C15_ReturnsEnvelope ==
    (/\ call.op \in Operations
     /\ call.response.ok
     /\ ~absent(call.response.data))
        => /\ call.result = Returned(call.response.data[1])
           /\ call.result.v.kind = "envelope"

\* C15 witness: an operation returned the envelope {success: true, data}.
C15_Witness ==
    /\ call.op \in Operations
    /\ call.response.ok
    /\ call.result = Returned(OkEnvelope)

\* C16 as stated: an operation whose 2xx response parses to an envelope
\* without a data field raises.
C16_MissingDataRaises ==
    (/\ call.op \in Operations
     /\ call.response.ok
     /\ call.response.data # <<>>
     /\ call.response.data[1].kind = "envelope"
     /\ call.response.data[1].data = <<>>)
        => call.result.t = "Error"

\* C17 as stated: getAuthToken returns the token last set; a request made
\* while a token is set carries it in a header, and a request made while none
\* is set carries no header but Content-Type.
C17_TokenOnEveryRequest ==
    /\ call.op = "setAuthToken" => getAuthToken = call.token
    /\ call.op \in Operations =>
           /\ call.token = getAuthToken
           /\ call.token # <<>> =>
                  \E h \in call.headers :
                      h[2] \in {call.token[1], "Bearer " \o call.token[1]}
           /\ call.token = <<>> =>
                  call.headers = {<<"Content-Type", "application/json">>}

\* C18 as stated: request returns ok = false with the status the server sent
\* for a response with an error status, and ok = false, status 500 and the
\* message of the exception as error when fetch throws.
C18_ErrorStatusReported ==
    /\ (call.fetched.t = "response" /\ ~IsOk(call.fetched.status)) =>
           /\ ~call.response.ok
           /\ call.response.status = call.fetched.status
    /\ call.fetched.t = "throws" =>
           /\ ~call.response.ok
           /\ call.response.status = 500
           /\ call.response.error # <<>>
           /\ call.fetched.error # <<>> =>
                  call.response.error = call.fetched.error

\* C19 as stated: for every response of the server, ok says whether its
\* status is 2xx and status is that status; error is set only when fetch
\* threw.
C19_OkIffSuccessStatus ==
    /\ call.fetched.t = "response" =>
           /\ call.response.ok = IsOk(call.fetched.status)
           /\ call.response.status = call.fetched.status
    /\ call.response.error # <<>> => call.fetched.t = "throws"

\* C20: with list and detail fetches in flight and completing in any order,
\* every step that changes the recipes map or recipeList is one whole
\* setRecipe or setRecipes, and in every state the last write shows in both:
\* after setRecipe(e) the map holds e under e.id and the list contains e,
\* after setRecipes(S) the list is S and the map holds, for each id of S, the
\* last element of S with that id.
C20_WritesAreAtomic ==
    /\ [](/\ last.op = "setRecipe" =>
                 LET e == last.recipe[1]
                 IN  /\ getRecipe(State, e.id) = Value(e)
                     /\ \E i \in 1..Len(recipeList) : recipeList[i] = e
          /\ last.op = "setRecipes" =>
                 /\ recipeList = last.recipes
                 /\ \A id \in ListIds(last.recipes) :
                        getRecipe(State, id) =
                            Value(last.recipes[LastIndexOf(last.recipes, id)]))
    /\ [][(recipes' # recipes \/ recipeList' # recipeList) =>
              \/ /\ last'.op = "setRecipe"
                 /\ State' = setRecipeUpdater(State, last'.recipe[1])
              \/ /\ last'.op = "setRecipes"
                 /\ State' = setRecipesUpdater(State, last'.recipes)]_vars

\* C20 witness: a detail response was written into a list that an earlier
\* list response had set, while the other detail fetch and a new list fetch
\* are still in flight.
C20_Witness ==
    /\ last.op = "setRecipe"
    /\ Len(recipeList) > 1
    /\ \E f \in inflight : f.hook = "useRecipes"
    /\ \E f \in inflight : f.hook = "useRecipe"

\* C26 as stated: a setRecipe whose id the cache holds (hasRecipe is true
\* before the call) adds no element to recipeList.
C26_KnownIdAddsNothing ==
    [][(/\ last'.op = "setRecipe"
        /\ hasRecipe(State, last'.recipe[1].id) = Value(TRUE))
           => Len(recipeList') = Len(recipeList)]_vars

\* No two elements of the list share an id.
DistinctIds(list) ==
    \A i, j \in DOMAIN list : list[i].id = list[j].id => i = j

\* C30: setRecipe keeps the ids of recipeList pairwise distinct when they are;
\* after setRecipes(S) they are distinct exactly when those of S are; and a
\* setRecipe whose id is in the list replaces the first element with that id
\* and leaves every other element, later ones with the same id included.
C30_UniqueIdsPreserved ==
    [][/\ (last'.op = "setRecipe" /\ DistinctIds(recipeList))
              => DistinctIds(recipeList')
       /\ last'.op = "setRecipes"
              => (DistinctIds(recipeList') <=> DistinctIds(last'.recipes))
       /\ (last'.op = "setRecipe" /\ last'.existingIndex >= 0)
              => /\ Len(recipeList') = Len(recipeList)
                 /\ \A i \in DOMAIN recipeList :
                        recipeList'[i] =
                            IF i = last'.existingIndex + 1
                            THEN last'.recipe[1]
                            ELSE recipeList[i]
                 /\ \A i \in 1..last'.existingIndex :
                        recipeList[i].id # last'.recipe[1].id]_vars

\* C30 witness: setRecipes had put two elements with one id in the list, and
\* a setRecipe with that id replaced the first of them only.
C30_Witness ==
    /\ last.op = "setRecipe"
    /\ last.existingIndex = 0
    /\ Len(recipeList) = 2
    /\ recipeList[1] = last.recipe[1]
    /\ recipeList[2].id = recipeList[1].id
    /\ recipeList[2] # recipeList[1]

\* A step in which the response of a hook's request arrived.
Settles(hook) ==
    /\ inflight' # inflight
    /\ event'.phase = "settled"
    /\ event'.hook = hook

\* A step in which useRecipe mounted with recipeId.
Renders(recipeId) ==
    /\ event'.phase = "rendered"
    /\ event'.hook = "useRecipe"
    /\ event'.param = recipeId
    /\ last' = last

\* C21 as stated: a fetch of useRecipes, useRecipe or useCreateRecipe that
\* was cancelled or failed leaves the recipes map, recipeList and the
\* snapshot as they were.
C21_FailedFetchWritesNothing ==
    [][(/\ \E hook \in {"useRecipes", "useRecipe", "useCreateRecipe"} :
               Settles(hook)
        /\ event'.status \in {"error", "cancelled"})
           => UNCHANGED <<recipes, recipeList, localStorage>>]_vars

C23_NullIdFetchesNothing ==
    /\ [][Renders(<<>>) =>
              /\ inflight' = inflight
              /\ UNCHANGED <<recipes, recipeList, localStorage, queryCache>>]_vars
    /\ [](/\ DetailFetch(0) \notin inflight
          /\ (/\ event.phase = "rendered"
              /\ event.hook = "useRecipe"
              /\ event.param = <<>>)
                 => /\ event.status = "pending"
                    /\ ~event.fetching
                    /\ event.data = <<>>
                    /\ event.effects = <<>>
                    /\ inflight = {})

\* C23 witness: useRecipe(null) mounted over a store that holds recipes.
C23_Witness ==
    /\ event.phase = "rendered"
    /\ event.hook = "useRecipe"
    /\ event.param = <<>>
    /\ Len(recipeList) > 0

\* C24: when useCreateRecipe's mutation succeeds with recipe r, getRecipe(r.id)
\* is r by a setRecipe(r), the list queries are invalidated and the detail
\* query of r.id holds r, the store being written before the invalidation;
\* when the mutation fails the store and the QueryClient are as before.
C24_CreateUpdatesStoreThenQueries ==
    [][Settles("useCreateRecipe") =>
           /\ event'.status = "success" =>
                  LET r == event'.data[1]
                  IN  /\ last'.op = "setRecipe"
                      /\ last'.recipe = <<r>>
                      /\ getRecipe(State', r.id) = Value(r)
                      /\ queryCache'.list.invalidated
                      /\ queryCache'.detail[r.id].data = <<r>>
                      /\ \E i, j \in DOMAIN event'.effects :
                             /\ i < j
                             /\ event'.effects[i] = "setRecipe"
                             /\ event'.effects[j] = "invalidateQueries"
           /\ event'.status # "success" =>
                  /\ UNCHANGED <<recipes, recipeList, localStorage, queryCache>>
                  /\ event'.effects = <<>>]_vars

\* C24 witness: a creation succeeded with a recipe whose id the store and
\* the detail query held with another value; both now hold the new one.
C24_Witness ==
    /\ event.phase = "settled"
    /\ event.hook = "useCreateRecipe"
    /\ event.status = "success"
    /\ last.op = "setRecipe"
    /\ last.existingIndex # -1
    /\ queryCache.list.invalidated
    /\ queryCache.detail[event.data[1].id].data = event.data
    /\ getRecipe(State, event.data[1].id) = Value(event.data[1])

\* C25: the recipes of a page useRecipes fetched are in the store when the
\* fetch completes; an id the store holds stays held through every page
\* fetch, detail fetch and creation, until clear(); and useRecipe mounted
\* with an id the store holds has data at once.
C25_FetchedPagesStayInStore ==
    [][/\ (Settles("useRecipes") /\ event'.status = "success") =>
              \A i \in DOMAIN event'.data :
                  /\ hasRecipe(State', event'.data[i].id) = Value(TRUE)
                  /\ getRecipe(State', event'.data[i].id) = Value(event'.data[i])
       /\ \/ MapKeys(recipes) \subseteq MapKeys(recipes')
          \/ last'.op = "clear"
       /\ \A id \in Ids :
              (Renders(<<id>>) /\ hasRecipe(State, id) = Value(TRUE))
                  => /\ event'.data # <<>>
                     /\ event'.status = "success"]_vars

\* C25 witness: useRecipe(1) mounted after a page brought recipe 1 and a
\* later write replaced recipeList: recipe 1, gone from the list and never
\* fetched by id, is the hook's data at once.
C25_Witness ==
    /\ event.phase = "rendered"
    /\ event.hook = "useRecipe"
    /\ event.param = <<1>>
    /\ event.data # <<>>
    /\ queryCache.detail[1].data = <<>>
    /\ queryCache.list.pages # <<>>
    /\ 1 \notin ListIds(recipeList)
    /\ getRecipe(State, 1) = Value(event.data[1])

\* C27: with the list fetch and the detail fetches in flight together and
\* their responses arriving in any order, every response that brings a
\* recipe for an id makes getRecipe(id) that recipe, and leaves every other
\* id as it was: getRecipe(id) is the value of the write applied last.
C27_LastWriteWins ==
    [][(inflight' # inflight /\ event'.phase = "settled") =>
           \A id \in Ids :
               getRecipe(State', id) =
                   IF id \in ListIds(event'.data)
                   THEN Value(event'.data[LastIndexOf(event'.data, id)])
                   ELSE getRecipe(State, id)]_vars

\* C27 witness: the detail fetch of id 1 brought one value and the list fetch,
\* completing after it, another; every response is in, and getRecipe(1) is
\* the list's value.
C27_Witness ==
    /\ inflight = {}
    /\ event.phase = "settled"
    /\ event.hook = "useRecipes"
    /\ event.data # <<>>
    /\ event.data[1].id = 1
    /\ queryCache.detail[1].data # <<>>
    /\ queryCache.detail[1].data[1].id = 1
    /\ queryCache.detail[1].data # event.data
    /\ getRecipe(State, 1) = Value(event.data[1])

\* The last page the list query holds.
LastPage == queryCache.list.pages[Len(queryCache.list.pages)]

\* C28: useRecipes has a next page exactly when the page just fetched holds
\* limit recipes, and the next offset is then that page's offset plus limit;
\* a list request past the first page leaves only for that offset, and after
\* a page of fewer than limit recipes none leaves.
C28_NextPageIffFullPage ==
    /\ [](queryCache.list.pages # <<>> =>
              /\ hasNextPage(queryCache.list) <=> LastPage.count = Limit
              /\ hasNextPage(queryCache.list) =>
                     queryCache.list.nextOffset = <<LastPage.pageParam + Limit>>
              /\ LastPage.count < Limit => queryCache.list.nextOffset = <<>>)
    /\ [][/\ (Settles("useRecipes") /\ event'.status = "success") =>
                 /\ LastPage'.count = Len(event'.data)
                 /\ LastPage'.pageParam = event'.param[1]
          /\ \A o \in Offsets \ {0} :
                 ListFetch(o) \in inflight' \ inflight =>
                     /\ queryCache.list.pages # <<>>
                     /\ LastPage.count = Limit
                     /\ o = LastPage.pageParam + Limit
          /\ event'.phase = "fetchNextPage" =>
                 (LastPage.count < Limit =>
                      /\ inflight' = inflight
                      /\ event'.effects = <<>>)]_vars

\* C28 witness: after a first page of limit recipes and a second page of
\* fewer, fetchNextPage was called and no request left.
C28_Witness ==
    /\ Len(queryCache.list.pages) = 2
    /\ queryCache.list.pages[1].count = Limit
    /\ LastPage.count > 0
    /\ LastPage.count < Limit
    /\ LastPage.pageParam = Limit
    /\ event.phase = "fetchNextPage"
    /\ event.effects = <<>>
    /\ inflight = {}

\* C29: when a page fetch of useRecipes completes, recipeList is that page
\* if the page has recipes and is as before if it has none; so recipeList is
\* the last page with recipes that completed, never the pages joined.
C29_ListIsLastNonEmptyPage ==
    /\ [][Settles("useRecipes") =>
              IF event'.data # <<>>
              THEN recipeList' = event'.data
              ELSE recipeList' = recipeList]_vars
    /\ [](last.op = "setRecipes" => recipeList = last.recipes)

\* C29 witness: two pages with recipes completed; recipeList is the second
\* page alone, shorter than the two together.
C29_Witness ==
    /\ Len(queryCache.list.pages) = 2
    /\ queryCache.list.pages[1].count > 0
    /\ LastPage.count > 0
    /\ event.phase = "settled"
    /\ event.param = <<Limit>>
    /\ event.status = "success"
    /\ recipeList = event.data
    /\ Len(recipeList) = LastPage.count
    /\ Len(recipeList) < queryCache.list.pages[1].count + LastPage.count

====
